---- MODULE Spec2Model ----
(***************************************************************************)
(* HTTP file-storage service: server.js (request callback and routing),    *)
(* RequestHandler (write and read handlers), PathValidator (filename       *)
(* policy), FileManager (file store) and ResponseFormatter.                *)
(*                                                                         *)
(* A JavaScript string is a sequence of one-character strings.  The fixed  *)
(* message texts of the responses are kept as one chunk each.  disk0 is    *)
(* the disk the server started on.                                         *)
(***************************************************************************)
EXTENDS Integers, Sequences, FiniteSets, TLC

VARIABLES dirExists, files, reqs, calls, disk0

vars == <<dirExists, files, reqs, calls, disk0>>

\* Number of requests the server receives in one behaviour.
MaxRequests == 3

\* Number of requests of one behaviour of the sequential client.
MaxSeqRequests == 2

(***************************************************************************)
(* Strings                                                                 *)
(***************************************************************************)
NL == "\n"

Includes(s, sub) ==
  \E i \in 1..(Len(s) - Len(sub) + 1) : SubSeq(s, i, i + Len(sub) - 1) = sub

StartsWith(s, p) == Len(s) >= Len(p) /\ SubSeq(s, 1, Len(p)) = p

EndsWith(s, p) == Len(s) >= Len(p) /\ SubSeq(s, Len(s) - Len(p) + 1, Len(s)) = p

\* The white space String.prototype.trim removes (the blank stands for all of it).
IsWhiteSpace(c) == c = " "

RECURSIVE TrimStart(_)
TrimStart(s) ==
  IF s # <<>> /\ IsWhiteSpace(Head(s)) THEN TrimStart(Tail(s)) ELSE s

RECURSIVE TrimEnd(_)
TrimEnd(s) ==
  IF s # <<>> /\ IsWhiteSpace(s[Len(s)]) THEN TrimEnd(SubSeq(s, 1, Len(s) - 1)) ELSE s

\* pathname.split(sep)[1] for a pathname that starts with sep: the text between
\* the first occurrence of sep and the next one (or the end of the pathname).
SplitSecond(s, sep) ==
  LET rest == SubSeq(s, Len(sep) + 1, Len(s))
      hits == {i \in 1..(Len(rest) - Len(sep) + 1) :
                 SubSeq(rest, i, i + Len(sep) - 1) = sep}
  IN  IF hits = {} THEN rest
      ELSE SubSeq(rest, 1, (CHOOSE i \in hits : \A j \in hits : i <= j) - 1)

RECURSIVE Join(_, _)
\* Array.prototype.join: what an array becomes in `text + '\n'` and in a template.
Join(a, sep) ==
  IF a = <<>> THEN <<>>
  ELSE IF Len(a) = 1 THEN a[1]
  ELSE a[1] \o sep \o Join(Tail(a), sep)

(***************************************************************************)
(* The query parameter `text` as url.parse(req.url, true) gives it: the    *)
(* sequence of the values of its occurrences in the query string.  No      *)
(* occurrence is undefined, one is a string, two or more are an array.     *)
(***************************************************************************)
IsString(text) == Len(text) = 1
IsArray(text) == Len(text) >= 2

\* !text is false for every array and for every non-empty string.
Truthy(text) == IsArray(text) \/ (IsString(text) /\ text[1] # <<>>)

\* String conversion of the parameter in `text + '\n'` and in a template literal.
toString(text) == IF IsString(text) THEN text[1] ELSE Join(text, <<",">>)

(***************************************************************************)
(* PathValidator                                                           *)
(***************************************************************************)
Letters ==
  {"a","b","c","d","e","f","g","h","i","j","k","l","m","n","o","p","q","r","s","t",
   "u","v","w","x","y","z","A","B","C","D","E","F","G","H","I","J","K","L","M","N",
   "O","P","Q","R","S","T","U","V","W","X","Y","Z"}

Digits == {"0","1","2","3","4","5","6","7","8","9"}

\* /^[a-zA-Z0-9_\-\.]+$/
validPattern(s) ==
  s # <<>> /\ \A i \in 1..Len(s) : s[i] \in Letters \cup Digits \cup {"_", "-", "."}

isValidFilenameNoTraversalCheck(filename) ==
  /\ filename # <<>>
  /\ EndsWith(filename, <<".", "t", "x", "t">>)
  /\ \A i \in 1..Len(filename) :
       filename[i] \in Letters \cup Digits \cup {"_", "-", ".", "/", "\\"}

isValidFilenameNoExtensionCheck(filename) ==
  /\ filename # <<>>
  /\ ~(Includes(filename, <<".", ".">>) \/ Includes(filename, <<"/">>)
         \/ Includes(filename, <<"\\">>))
  /\ validPattern(filename)

\* Every filename of the model is a string, so `typeof filename !== 'string'` is
\* false and the first test is the one for the empty string.
isValidFilename(filename) ==
  /\ filename # <<>>
  /\ ~(Includes(filename, <<".", ".">>) \/ Includes(filename, <<"/">>)
         \/ Includes(filename, <<"\\">>))
  /\ EndsWith(filename, <<".", "t", "x", "t">>)
  /\ validPattern(filename)

sanitizeFilename(filename) == TrimEnd(TrimStart(filename))

(***************************************************************************)
(* FileManager: the file store.  A path is the sequence of its segments;   *)
(* `files` maps every path that exists to its contents.                    *)
(***************************************************************************)
\* path.join(__dirname, 'files')
FILES_DIR == << <<"a","p","p">>, <<"f","i","l","e","s">> >>

RECURSIVE SplitPath(_, _)
\* The segments of a relative path; cur is the segment being read.
SplitPath(s, cur) ==
  IF s = <<>> THEN <<cur>>
  ELSE IF Head(s) = "/" THEN <<cur>> \o SplitPath(Tail(s), <<>>)
  ELSE SplitPath(Tail(s), Append(cur, Head(s)))

RECURSIVE Normalize(_, _)
\* path.join's normalisation: empty and '.' segments go, '..' drops the last one.
Normalize(done, segs) ==
  IF segs = <<>> THEN done
  ELSE IF Head(segs) = <<>> \/ Head(segs) = <<".">> THEN Normalize(done, Tail(segs))
  ELSE IF Head(segs) = <<".", ".">> THEN
    Normalize(IF done = <<>> THEN done ELSE SubSeq(done, 1, Len(done) - 1), Tail(segs))
  ELSE Normalize(Append(done, Head(segs)), Tail(segs))

_getFullPath(filename) == Normalize(FILES_DIR, SplitPath(filename, <<>>))

\* fs.appendFile(fullPath, text + '\n'): creates the file when it is absent.
appendFileNoNewline(fs, fullPath, text) ==
  IF fullPath \in DOMAIN fs
  THEN [fs EXCEPT ![fullPath] = @ \o toString(text)]
  ELSE fs @@ (fullPath :> toString(text))

appendFileTruncating(fs, fullPath, text) ==
  IF fullPath \in DOMAIN fs
  THEN [fs EXCEPT ![fullPath] = toString(text) \o <<NL>>]
  ELSE fs @@ (fullPath :> (toString(text) \o <<NL>>))

appendFile(fs, fullPath, text) ==
  IF fullPath \in DOMAIN fs
  THEN [fs EXCEPT ![fullPath] = @ \o toString(text) \o <<NL>>]
  ELSE fs @@ (fullPath :> (toString(text) \o <<NL>>))

(***************************************************************************)
(* ResponseFormatter: a response is its status, headers and body.          *)
(***************************************************************************)
sendSuccess(data, contentType) ==
  [status |-> 200, contentType |-> contentType, allowOrigin |-> "*", body |-> data]

sendError(statusCode, message) ==
  [status |-> statusCode, contentType |-> "text/plain", allowOrigin |-> "*",
   body |-> message]

send404NoFilename(filename) == sendError(404, <<"Error 404: File not found">>)

send404(filename) ==
  sendError(404, <<"Error 404: File '">> \o filename \o <<"' not found">>)

sendWriteSuccess(text) ==
  sendSuccess(<<"Successfully appended: \"">> \o toString(text) \o <<"\"">>, "text/plain")

\* res.writeHead(204); res.end() after the two setHeader calls of the callback.
sendNoContent ==
  [status |-> 204, contentType |-> "", allowOrigin |-> "*", body |-> <<>>]

(***************************************************************************)
(* Requests.  req.url is modelled by what url.parse makes of it: badAuth   *)
(* (an absolute-form URL whose auth part cannot be percent-decoded, for    *)
(* which url.parse throws URIError), the pathname, and the parameter text. *)
(***************************************************************************)
WritePath ==
  <<"/","C","O","M","P","4","5","3","7","/","l","a","b","s","/","3","/",
    "w","r","i","t","e","F","i","l","e">>

ReadPrefix ==
  <<"/","C","O","M","P","4","5","3","7","/","l","a","b","s","/","3","/",
    "r","e","a","d","F","i","l","e","/">>

\* const filename = 'file.txt'
FileTxt == <<"f","i","l","e",".","t","x","t">>

UsageMessage ==
  <<"Endpoint not found. Available endpoints:\n- /COMP4537/labs/3/writeFile/?text=YourText\n- /COMP4537/labs/3/readFile/file.txt">>

\* The state of one invocation of the request callback.
\*   pc       where the invocation stands: at one of its awaits ("mkdir",
\*            "appendFile", "access", "readFile"), about to continue in its
\*            handler after them ("respond"), returned ("done"), or ended by
\*            an exception that left the callback ("rejected")
\*   handler  the handler the request was routed to
\*   filename the filename the handler gives the file store
\*   found, content   the result of FileManager.readFile (found = FALSE: null)
\*   threw    an exception is on its way to the handler's catch
\*   res      the responses written, in order
\* and for the properties: arg (the filename argument of handleReadRequest),
\* fault (a file system call failed), at (the length of the file when this
\* request's append landed, -1 before), seen (for a request given to the read
\* handler, the write requests answered 200 before it came in).
Invocation(method, badAuth, pathname, text) ==
  [method |-> method, badAuth |-> badAuth, pathname |-> pathname, text |-> text,
   pc |-> "start", handler |-> "none", arg |-> <<>>, filename |-> <<>>,
   found |-> FALSE, content |-> <<>>, threw |-> FALSE, fault |-> FALSE,
   res |-> <<>>, at |-> -1, seen |-> {}]

Reply(p, response) == [p EXCEPT !.res = Append(@, response), !.pc = "done"]

\* handleWriteRequest up to its first await (fs.mkdir in appendToFile).
handleWriteRequestNoTextCheck(p) ==
  [p EXCEPT !.handler = "write", !.filename = FileTxt, !.pc = "mkdir"]

handleWriteRequest(p) ==
  LET q == [p EXCEPT !.handler = "write"]
  IN  IF ~Truthy(q.text)
      THEN Reply(q, sendError(400, <<"Bad Request: Missing \"text\" parameter">>))
      ELSE IF ~isValidFilename(FileTxt)
      THEN Reply(q, sendError(400, <<"Invalid filename">>))
      ELSE [q EXCEPT !.filename = FileTxt, !.pc = "mkdir"]

\* handleReadRequest up to its first await (fs.access in fileExists).
handleReadRequest(p, filename) ==
  LET q == [p EXCEPT !.handler = "read", !.arg = filename]
  IN  IF filename = <<>>
      THEN Reply(q, sendError(400, <<"Bad Request: No filename provided">>))
      ELSE IF ~isValidFilename(sanitizeFilename(filename))
      THEN Reply(q, sendError(400, <<"Bad Request: Invalid filename">>))
      ELSE [q EXCEPT !.filename = sanitizeFilename(filename), !.pc = "access"]

\* The callback of http.createServer up to its first await.
callbackOptionsAfterRouting(p) ==
  IF p.badAuth THEN [p EXCEPT !.pc = "rejected"]
  ELSE IF p.pathname = WritePath \o <<"/">> \/ p.pathname = WritePath
  THEN handleWriteRequest(p)
  ELSE IF StartsWith(p.pathname, ReadPrefix)
  THEN handleReadRequest(p, SplitSecond(p.pathname, ReadPrefix))
  ELSE IF p.method = "OPTIONS" THEN Reply(p, sendNoContent)
  ELSE Reply(p, sendError(404, UsageMessage))

callback(p) ==
  IF p.badAuth THEN [p EXCEPT !.pc = "rejected"]
  ELSE IF p.method = "OPTIONS" THEN Reply(p, sendNoContent)
  ELSE IF p.pathname = WritePath \o <<"/">> \/ p.pathname = WritePath
  THEN handleWriteRequest(p)
  ELSE IF StartsWith(p.pathname, ReadPrefix)
  THEN handleReadRequest(p, SplitSecond(p.pathname, ReadPrefix))
  ELSE Reply(p, sendError(404, UsageMessage))

\* The calls of the file store an invocation makes before its first await:
\* appendToFile by the write handler; readFile, and fileExists from it, by the
\* read handler.
StoreCalls(id, p) ==
  LET call(op) == [id |-> id, op |-> op, filename |-> p.filename,
                   path |-> _getFullPath(p.filename)]
  IN  IF p.pc = "mkdir" THEN {call("appendToFile")}
      ELSE IF p.pc = "access" THEN {call("readFile"), call("fileExists")}
      ELSE {}

Answered200(p) == p.res # <<>> /\ p.res[1].status = 200

(***************************************************************************)
(* The requests and the disks of the model.                                *)
(***************************************************************************)
ATxt == <<"a",".","t","x","t">>
NotesMd == <<"n","o","t","e","s",".","m","d">>
SecretTxt == <<"s","e","c","r","e","t",".","t","x","t">>

Get(pathname, text) ==
  [method |-> "GET", badAuth |-> FALSE, pathname |-> pathname, text |-> text]

Options(pathname, text) ==
  [method |-> "OPTIONS", badAuth |-> FALSE, pathname |-> pathname, text |-> text]

\* The values of `text` in a write request: missing, empty, plain, with a line
\* terminator inside, and given twice.
Texts ==
  { <<>>, << <<>> >>, << <<"a">> >>, << <<"b">> >>, << <<"a", NL, "b">> >>,
    << <<"a">>, <<"b">> >>, << <<>>, <<>> >> }

\* The filenames of read requests (the rest of the path after the prefix).
Names ==
  { <<>>, FileTxt, ATxt, <<" ">> \o FileTxt \o <<" ">>, <<" ", " ">>,
    NotesMd, <<".", ".", "/">> \o SecretTxt, <<"s", "/">> \o ATxt,
    <<"s", "\\">> \o ATxt, <<"a", "$">> \o <<".", "t", "x", "t">>,
    <<".", ".", "t", "x", "t">>, <<"a", ".", "t", "x", "t", ".", "m", "d">>,
    ATxt \o ReadPrefix \o NotesMd }

BadAuth(method, pathname, text) ==
  [method |-> method, badAuth |-> TRUE, pathname |-> pathname, text |-> text]

Inputs ==
  {Get(WritePath \o <<"/">>, t) : t \in Texts}
    \cup {Get(WritePath, << <<"a">> >>), Get(WritePath, <<>>)}
    \cup {Get(ReadPrefix \o n, <<>>) : n \in Names}
    \cup {Get(<<"/">>, <<>>), Get(SubSeq(ReadPrefix, 1, Len(ReadPrefix) - 1), <<>>),
          Get(WritePath \o <<"/", "x">>, << <<"a">> >>)}
    \cup {Options(WritePath \o <<"/">>, << <<"a">> >>), Options(ReadPrefix \o FileTxt, <<>>),
          Options(ReadPrefix \o NotesMd, <<>>), Options(<<"/">>, <<>>)}
    \cup {BadAuth("GET", WritePath \o <<"/">>, << <<"a">> >>),
          BadAuth("OPTIONS", <<"/">>, <<>>)}

\* The requests of the concurrent clients.
ConcurrentInputs ==
  { Get(WritePath \o <<"/">>, << <<"a">> >>), Get(WritePath \o <<"/">>, << <<"b">> >>),
    Get(ReadPrefix \o FileTxt, <<>>), Get(ReadPrefix \o NotesMd, <<>>),
    Get(<<"/">>, <<>>),
    Options(WritePath \o <<"/">>, << <<"a">> >>) }

\* Files other than file.txt, inside and outside the storage directory.
Others ==
  (Append(FILES_DIR, ATxt) :> <<"q", NL>>)
    @@ (Append(FILES_DIR, NotesMd) :> <<"m", NL>>)
    @@ (<< <<"a","p","p">>, SecretTxt >> :> <<"s", NL>>)

\* The disks the server may start on: no storage directory yet, an empty one,
\* one that holds file.txt, and ones that hold the other files.
InitialDisks ==
  { [dir |-> FALSE, files |-> << >>],
    [dir |-> TRUE, files |-> << >>],
    [dir |-> TRUE, files |-> (Append(FILES_DIR, FileTxt) :> <<"z", NL>>)],
    [dir |-> TRUE, files |-> Others],
    [dir |-> TRUE, files |-> (Append(FILES_DIR, FileTxt) :> <<"z", NL>>) @@ Others] }

\* The disks the server starts on under the concurrent clients.
ConcurrentDisks ==
  { [dir |-> FALSE, files |-> << >>],
    [dir |-> TRUE, files |-> (Append(FILES_DIR, FileTxt) :> <<"z", NL>>) @@ Others] }

StartOn(disks) ==
  /\ \E d \in disks : dirExists = d.dir /\ files = d.files /\ disk0 = d
  /\ reqs = <<>>
  /\ calls = {}

Init == StartOn(ConcurrentDisks)

InitSeq == StartOn(InitialDisks)

(***************************************************************************)
(* Actions: one per stretch of code between two awaits.                    *)
(***************************************************************************)
Ids == 1..Len(reqs)

\* A request comes in and the callback runs up to its first await.
Incoming(inputs, bound) ==
  /\ Len(reqs) < bound
  /\ \E r \in inputs :
       LET id == Len(reqs) + 1
           q  == callback(Invocation(r.method, r.badAuth, r.pathname, r.text))
           p  == IF q.handler = "read"
                 THEN [q EXCEPT !.seen = {j \in Ids : reqs[j].handler = "write"
                                                      /\ Answered200(reqs[j])}]
                 ELSE q
       IN  /\ reqs' = Append(reqs, p)
           /\ calls' = calls \cup StoreCalls(id, p)
  /\ UNCHANGED <<dirExists, files, disk0>>

Request == Incoming(ConcurrentInputs, MaxRequests)

\* The sequential client sends a request when the one before has ended.
SeqRequest ==
  /\ \A j \in Ids : reqs[j].pc \in {"done", "rejected"}
  /\ Incoming(Inputs, MaxSeqRequests)

\* appendToFile called without await: the handler goes on to answer at once.
MkdirNotAwaited(i) ==
  /\ reqs[i].pc = "mkdir"
  /\ reqs' = [reqs EXCEPT ![i] = Reply(@, sendWriteSuccess(@.text))]
  /\ UNCHANGED <<dirExists, files, calls, disk0>>

\* await fs.mkdir(this.baseDir, { recursive: true })
Mkdir(i) ==
  /\ reqs[i].pc = "mkdir"
  /\ \E ok \in BOOLEAN :
       IF ok
       THEN /\ dirExists' = TRUE
            /\ reqs' = [reqs EXCEPT ![i].pc = "appendFile"]
       ELSE /\ dirExists' = dirExists
            /\ reqs' = [reqs EXCEPT ![i].pc = "respond", ![i].threw = TRUE,
                                    ![i].fault = TRUE]
  /\ UNCHANGED <<files, calls, disk0>>

\* await fs.appendFile(fullPath, text + '\n', 'utf8')
AppendFile(i) ==
  /\ reqs[i].pc = "appendFile"
  /\ \E ok \in BOOLEAN :
       LET fullPath == _getFullPath(reqs[i].filename)
       IN  IF ok /\ dirExists
           THEN /\ files' = appendFile(files, fullPath, reqs[i].text)
                /\ reqs' = [reqs EXCEPT ![i].pc = "respond",
                              ![i].at = IF fullPath \in DOMAIN files
                                        THEN Len(files[fullPath]) ELSE 0]
           ELSE /\ files' = files
                /\ reqs' = [reqs EXCEPT ![i].pc = "respond", ![i].threw = TRUE,
                                        ![i].fault = TRUE]
  /\ UNCHANGED <<dirExists, calls, disk0>>

\* handleWriteRequest after `await this.fileManager.appendToFile(filename, text)`.
writeRespond(p) ==
  IF p.threw
  THEN Reply(p, sendError(500, <<"Internal Server Error: Could not write to file">>))
  ELSE Reply(p, sendWriteSuccess(p.text))

WriteRespond(i) ==
  /\ reqs[i].handler = "write"
  /\ reqs[i].pc = "respond"
  /\ reqs' = [reqs EXCEPT ![i] = writeRespond(@)]
  /\ UNCHANGED <<dirExists, files, calls, disk0>>

\* await fs.access(fullPath) in fileExists: every failure is `false`.
Access(i) ==
  /\ reqs[i].pc = "access"
  /\ \E ok \in BOOLEAN :
       IF ok /\ _getFullPath(reqs[i].filename) \in DOMAIN files
       THEN reqs' = [reqs EXCEPT ![i].pc = "readFile"]
       ELSE reqs' = [reqs EXCEPT ![i].pc = "respond", ![i].found = FALSE,
                                 ![i].fault = ~ok]
  /\ UNCHANGED <<dirExists, files, calls, disk0>>

\* await fs.readFile(fullPath, 'utf8')
ReadFile(i) ==
  /\ reqs[i].pc = "readFile"
  /\ \E ok \in BOOLEAN :
       LET fullPath == _getFullPath(reqs[i].filename)
       IN  IF ok /\ fullPath \in DOMAIN files
           THEN reqs' = [reqs EXCEPT ![i].pc = "respond", ![i].found = TRUE,
                                     ![i].content = files[fullPath]]
           ELSE reqs' = [reqs EXCEPT ![i].pc = "respond", ![i].threw = TRUE,
                                     ![i].fault = TRUE]
  /\ UNCHANGED <<dirExists, files, calls, disk0>>

\* handleReadRequest after `await this.fileManager.readFile(sanitizedFilename)`.
readRespond(p) ==
  IF p.threw
  THEN Reply(p, sendError(500, <<"Internal Server Error: Could not read file">>))
  ELSE IF ~p.found THEN Reply(p, send404(p.filename))
  ELSE Reply(p, sendSuccess(p.content, "text/plain; charset=utf-8"))

ReadRespond(i) ==
  /\ reqs[i].handler = "read"
  /\ reqs[i].pc = "respond"
  /\ reqs' = [reqs EXCEPT ![i] = readRespond(@)]
  /\ UNCHANGED <<dirExists, files, calls, disk0>>

Next ==
  \/ Request
  \/ \E i \in Ids : Mkdir(i)
  \/ \E i \in Ids : AppendFile(i)
  \/ \E i \in Ids : WriteRespond(i)
  \/ \E i \in Ids : Access(i)
  \/ \E i \in Ids : ReadFile(i)
  \/ \E i \in Ids : ReadRespond(i)

Spec == Init /\ [][Next]_vars

NextSeq ==
  \/ SeqRequest
  \/ \E i \in Ids : Mkdir(i)
  \/ \E i \in Ids : AppendFile(i)
  \/ \E i \in Ids : WriteRespond(i)
  \/ \E i \in Ids : Access(i)
  \/ \E i \in Ids : ReadFile(i)
  \/ \E i \in Ids : ReadRespond(i)

SpecSeq == InitSeq /\ [][NextSeq]_vars

(***************************************************************************)
(* Properties.  What they say of filenames and of lines is stated here     *)
(* from the specification, apart from the operators of the code above.     *)
(***************************************************************************)
\* The filename policy: non-empty, no '..', '/' or '\', ends in '.txt', only
\* characters of [A-Za-z0-9_.-].
Policy(name) ==
  /\ Len(name) >= 1
  /\ \A k \in 1..Len(name) : name[k] \notin {"/", "\\"}
  /\ \A k \in 1..(Len(name) - 1) : ~(name[k] = "." /\ name[k + 1] = ".")
  /\ Len(name) >= 4
  /\ <<name[Len(name) - 3], name[Len(name) - 2], name[Len(name) - 1], name[Len(name)]>>
       = <<".", "t", "x", "t">>
  /\ \A k \in 1..Len(name) : name[k] \in Letters \cup Digits \cup {"_", ".", "-"}

\* name without the white space around it.
Trimmed(name) ==
  LET inner == {k \in 1..Len(name) : name[k] # " "}
  IN  IF inner = {} THEN <<>>
      ELSE SubSeq(name, CHOOSE a \in inner : \A k \in inner : a <= k,
                        CHOOSE b \in inner : \A k \in inner : k <= b)

\* The file of that name in the storage directory.
Stored(name) == Append(FILES_DIR, name)

RECURSIVE Lines(_, _)
\* The lines of a text, each ended by a line terminator; cur is the line being read.
Lines(s, cur) ==
  IF s = <<>> THEN (IF cur = <<>> THEN <<>> ELSE <<cur>>)
  ELSE IF Head(s) = NL THEN <<cur>> \o Lines(Tail(s), <<>>)
  ELSE Lines(Tail(s), Append(cur, Head(s)))

Ended(p) == p.pc \in {"done", "rejected"}

IsWrite(p) == ~p.badAuth /\ p.method # "OPTIONS" /\ p.pathname \in {WritePath, WritePath \o <<"/">>}

IsRead(p) == ~p.badAuth /\ p.method # "OPTIONS" /\ StartsWith(p.pathname, ReadPrefix)

\* The write requests whose append has been done.
Appended == {i \in Ids : reqs[i].at >= 0}

FreshStore == Stored(FileTxt) \notin DOMAIN disk0.files

WrittenTexts ==
  LET ws == SelectSeq(reqs, LAMBDA p : IsWrite(p) /\ Answered200(p))
  IN  [k \in 1..Len(ws) |-> toString(ws[k].text)]

\* C2 (under the sequential client): on a store that starts without file.txt,
\* once every request has ended the lines of file.txt are the texts of the write
\* requests answered 200, in the order of the writes.
C2_LinesAreTextsInOrder ==
  (FreshStore /\ \A i \in Ids : Ended(reqs[i]))
    => Lines(IF Stored(FileTxt) \in DOMAIN files THEN files[Stored(FileTxt)] ELSE <<>>,
             <<>>) = WrittenTexts

\* C3: a read request for a filename that meets the policy and names no file of
\* the store is answered 404 with the body "Error 404: File '<filename>' not
\* found", <filename> being the requested filename trimmed; and while no write
\* request has come in the store is the one the server started on.
C3_NeverWritten404 ==
  /\ \A i \in Ids :
       ( /\ IsRead(reqs[i]) /\ reqs[i].pc = "done"
         /\ Policy(Trimmed(reqs[i].arg))
         /\ Stored(Trimmed(reqs[i].arg)) \notin DOMAIN files )
       => /\ Len(reqs[i].res) = 1
          /\ reqs[i].res[1].status = 404
          /\ reqs[i].res[1].body
               = <<"Error 404: File '">> \o Trimmed(reqs[i].arg) \o <<"' not found">>
  /\ (\A i \in Ids : ~IsWrite(reqs[i])) => (files = disk0.files /\ dirExists = disk0.dir)

C3_Witness ==
  \E i \in Ids :
    /\ IsRead(reqs[i]) /\ reqs[i].pc = "done"
    /\ reqs[i].arg = <<" ">> \o FileTxt \o <<" ">>
    /\ Stored(FileTxt) \notin DOMAIN files
    /\ reqs[i].res[1].status = 404

\* The calls of the file store that request i made.
CallsOf(i) == {c \in calls : c.id = i}

MissingOrEmpty(text) == text = <<>> \/ text = << <<>> >>

\* C5: a write request whose text is missing or empty is answered 400, makes no
\* call of the file store and none of its steps changes the storage directory or
\* a file; while every write request so far was such a one, the disk is the one
\* the server started on.
C5_MissingText400 ==
  /\ \A i \in Ids :
       (IsWrite(reqs[i]) /\ MissingOrEmpty(reqs[i].text))
         => /\ reqs[i].pc = "done"
            /\ Len(reqs[i].res) = 1
            /\ reqs[i].res[1].status = 400
            /\ reqs[i].at = -1
            /\ CallsOf(i) = {}
  /\ (\A i \in Ids : IsWrite(reqs[i]) => MissingOrEmpty(reqs[i].text))
       => (files = disk0.files /\ dirExists = disk0.dir)

C5_Witness ==
  /\ Len(reqs) = 2
  /\ IsWrite(reqs[1]) /\ reqs[1].text = <<>> /\ reqs[1].res[1].status = 400
  /\ IsWrite(reqs[2]) /\ reqs[2].text = << <<>> >> /\ reqs[2].res[1].status = 400
  /\ ~disk0.dir /\ ~dirExists

GenericMessages ==
  { <<"Internal Server Error">>,
    <<"Internal Server Error: Could not write to file">>,
    <<"Internal Server Error: Could not read file">> }

\* C7: no failure leaves the request callback; every request whose callback has
\* ended has exactly one response; and a request in which an exception was
\* thrown is answered 500 with a generic message.
C7_EveryFailureIs500 ==
  \A i \in Ids :
    /\ reqs[i].pc # "rejected"
    /\ reqs[i].pc = "done" => Len(reqs[i].res) = 1
    /\ (reqs[i].pc = "done" /\ (reqs[i].threw \/ reqs[i].badAuth))
         => (reqs[i].res[1].status = 500 /\ reqs[i].res[1].body \in GenericMessages)

IsPrefix(s, t) == Len(s) <= Len(t) /\ SubSeq(t, 1, Len(s)) = s

\* C8: in every step, under any interleaving of the requests, the storage
\* directory and every file that exists go on existing, the contents of a file
\* before the step are a prefix of its contents after it, and when the files have
\* changed it is file.txt alone that has, by a write request with a non-empty
\* text, whose text followed by one newline was added at its end.
C8_FileOnlyGrows ==
  [][ /\ dirExists => dirExists'
      /\ \A path \in DOMAIN files :
           path \in DOMAIN files' /\ IsPrefix(files[path], files'[path])
      /\ files' # files =>
           \E i \in Ids :
             /\ IsWrite(reqs[i]) /\ ~MissingOrEmpty(reqs[i].text)
             /\ DOMAIN files' = DOMAIN files \cup {Stored(FileTxt)}
             /\ \A path \in DOMAIN files \ {Stored(FileTxt)} : files'[path] = files[path]
             /\ files'[Stored(FileTxt)] =
                  (IF Stored(FileTxt) \in DOMAIN files THEN files[Stored(FileTxt)] ELSE <<>>)
                    \o toString(reqs[i].text) \o <<NL>>
    ]_vars

\* file.txt was there from the start and two writes have added to it.
C8_Witness ==
  /\ Stored(FileTxt) \in DOMAIN disk0.files
  /\ Cardinality(Appended) >= 2
  /\ \E i \in Ids : IsRead(reqs[i]) /\ reqs[i].pc = "done"
  /\ Len(files[Stored(FileTxt)]) = Len(disk0.files[Stored(FileTxt)]) + 4

\* text + '\n' of request i, and the places of file.txt it was written to.
LineOf(i) == toString(reqs[i].text) \o <<NL>>
PlacesOf(i) == (reqs[i].at + 1)..(reqs[i].at + Len(LineOf(i)))

Content == IF Stored(FileTxt) \in DOMAIN files THEN files[Stored(FileTxt)] ELSE <<>>
Content0 ==
  IF Stored(FileTxt) \in DOMAIN disk0.files THEN disk0.files[Stored(FileTxt)] ELSE <<>>

\* C9 (requests served concurrently, appends atomic): a write request is answered
\* 200 only when its append is done; what was appended to file.txt is, for each
\* write whose append is done, its text and a newline in one piece, each once and
\* nothing else; and a read request for file.txt that came in after a write was
\* answered 200 and is itself answered 200 returns contents that hold that line
\* where it was written (and it is answered 200 unless a file system call failed).
C9_NoLostWrite ==
  /\ \A i \in Ids : (IsWrite(reqs[i]) /\ Answered200(reqs[i])) => i \in Appended
  /\ \A i \in Appended :
       /\ IsWrite(reqs[i])
       /\ reqs[i].at >= Len(Content0)
       /\ reqs[i].at + Len(LineOf(i)) <= Len(Content)
       /\ SubSeq(Content, reqs[i].at + 1, reqs[i].at + Len(LineOf(i))) = LineOf(i)
  /\ \A i \in Appended : \A j \in Appended : i # j => PlacesOf(i) \cap PlacesOf(j) = {}
  /\ \A k \in (Len(Content0) + 1)..Len(Content) : \E i \in Appended : k \in PlacesOf(i)
  /\ IsPrefix(Content0, Content)
  /\ \A j \in Ids :
       (IsRead(reqs[j]) /\ Trimmed(reqs[j].arg) = FileTxt /\ reqs[j].pc = "done"
          /\ reqs[j].seen # {})
         => /\ Answered200(reqs[j]) \/ reqs[j].fault
            /\ Answered200(reqs[j]) =>
                 \A i \in reqs[j].seen :
                   SubSeq(reqs[j].res[1].body, reqs[i].at + 1, reqs[i].at + Len(LineOf(i)))
                     = LineOf(i)

\* Two writes were in flight together, the later request's append landed first,
\* and a read that came in after the first was answered holds its line.
C9_Witness ==
  /\ Len(reqs) = 3
  /\ IsWrite(reqs[1]) /\ IsWrite(reqs[2]) /\ {1, 2} \subseteq Appended
  /\ reqs[2].at < reqs[1].at
  /\ IsRead(reqs[3]) /\ reqs[3].seen = {2} /\ Answered200(reqs[3])
  /\ Answered200(reqs[1])

\* C10: every filename given to the file store meets the filename policy and
\* the path made of it is the file of that name directly in the storage
\* directory; appendToFile is only ever given file.txt; and the write handler
\* never answers 'Invalid filename'.
C10_PathConfinement ==
  /\ \A c \in calls :
       /\ Policy(c.filename)
       /\ c.path = Stored(c.filename)
       /\ c.op = "appendToFile" => c.filename = FileTxt
  /\ \A p \in DOMAIN files : p \in DOMAIN disk0.files \/ p = Stored(FileTxt)
  /\ \A i \in Ids : \A k \in 1..Len(reqs[i].res) :
       reqs[i].res[k].body # <<"Invalid filename">>

\* The store was called for a write, and for a read whose filename came with
\* white space around it.
C10_Witness ==
  /\ \E c \in calls : c.op = "appendToFile"
  /\ \E c \in calls : c.op = "readFile" /\ reqs[c.id].arg # c.filename

====
